---- MODULE Spec2Model ----
(***************************************************************************)
(* LangTrans: the autoregressive generation engine of                      *)
(* src/model/inference.rs (InferenceEngine::translate) run by several      *)
(* concurrent callers against the one Mutex<Model>.                        *)
(*                                                                         *)
(* Text is a sequence of pieces (strings); a token is the 0-based index of *)
(* a piece in the tokenizer's vocabulary.  The model's KV cache is, per    *)
(* layer, the sequence of tokens whose keys/values the layer holds.        *)
(***************************************************************************)
EXTENDS Integers, Sequences, FiniteSets, TLC

\* ------------------------------------------------------------------ bounds
NumCallers == 2
NumLayers == 2
MaxTextLen == 1
MaxKeys == 2
MaxTime == 2
MaxFailures == 10
MaxCodeLen == 2
MaxSeqLen == 2
NumSubmitters == 2

\* -------------------------------------------------------- program constants
MAX_NEW_TOKENS == 128
MAX_FAILED_ATTEMPTS == 5
BLOCK_DURATION == 1800
DefaultEos == 151645
AlternativeEos == 151643

Callers == 1..NumCallers
Layers == 1..NumLayers
NoHolder == 0
NoToken == 0 - 1

\* ------------------------------------------------------------- language.rs
Language == {"En", "Es", "Fr", "De", "Pt", "Ja", "Ko", "Zh", "Ar", "Ru", "Hi"}

display_name(lang) ==
    CASE lang = "En" -> "English"
      [] lang = "Es" -> "Spanish"
      [] lang = "Fr" -> "French"
      [] lang = "De" -> "German"
      [] lang = "Pt" -> "Portuguese"
      [] lang = "Ja" -> "Japanese"
      [] lang = "Ko" -> "Korean"
      [] lang = "Zh" -> "Chinese"
      [] lang = "Ar" -> "Arabic"
      [] lang = "Ru" -> "Russian"
      [] lang = "Hi" -> "Hindi"

\* ---------------------------------------------------------------- error.rs
\* AppError, and the result of a fallible function.
Unauthorized(msg) == [kind |-> "Unauthorized", msg |-> msg]
BadRequest(msg) == [kind |-> "BadRequest", msg |-> msg]
Forbidden(msg) == [kind |-> "Forbidden", msg |-> msg]
Internal(err) == [kind |-> "Internal", msg |-> err]

\* Variant: the internal error's text is sent to the client.
into_response_with_detail(e) ==
    CASE e.kind = "Unauthorized" -> [status |-> 401, body |-> e.msg]
      [] e.kind = "BadRequest" -> [status |-> 400, body |-> e.msg]
      [] e.kind = "Forbidden" -> [status |-> 403, body |-> e.msg]
      [] e.kind = "Internal" -> [status |-> 500, body |-> e.msg]

\* AppError::into_response: the status and the message sent to the client.
into_response(e) ==
    CASE e.kind = "Unauthorized" -> [status |-> 401, body |-> e.msg]
      [] e.kind = "BadRequest" -> [status |-> 400, body |-> e.msg]
      [] e.kind = "Forbidden" -> [status |-> 403, body |-> e.msg]
      [] e.kind = "Internal" ->
            [status |-> 500, body |-> << "Internal server error" >>]

\* ------------------------------------------------- language.rs: from_code
\* A language code is a sequence of characters, each written as a string:
\* the ASCII letters of the supported codes in both cases, a letter and a
\* digit of no code, and three characters outside ASCII, named by their code
\* points: the Kelvin sign, the capital I with dot above, the combining dot.
Lowers ==
    << "a", "d", "e", "f", "h", "i", "j", "k", "n", "o", "p", "r", "s", "t",
       "u", "z", "x" >>
Uppers ==
    << "A", "D", "E", "F", "H", "I", "J", "K", "N", "O", "P", "R", "S", "T",
       "U", "Z", "X" >>
KelvinSign == "U+212A"
CapitalIWithDot == "U+0130"
CombiningDot == "U+0307"

Chars ==
    {Lowers[i] : i \in 1..Len(Lowers)} \cup {Uppers[i] : i \in 1..Len(Uppers)}
    \cup {"1", KelvinSign, CapitalIWithDot}

\* char::to_lowercase: the Unicode lowercase mapping of one character.
char_to_lowercase(c) ==
    IF \E i \in 1..Len(Uppers) : Uppers[i] = c
    THEN << Lowers[CHOOSE i \in 1..Len(Uppers) : Uppers[i] = c] >>
    ELSE IF c = KelvinSign THEN << "k" >>
    ELSE IF c = CapitalIWithDot THEN << "i", CombiningDot >>
    ELSE << c >>

\* str::to_lowercase: the mappings of the characters, in order.
RECURSIVE to_lowercase(_)
to_lowercase(code) ==
    IF code = << >> THEN << >>
    ELSE char_to_lowercase(Head(code)) \o to_lowercase(Tail(code))

\* Variant: the code is matched as it was written.
from_code_case_sensitive(code) ==
    CASE code = << "e", "n" >> -> [ok |-> TRUE, lang |-> "En"]
      [] code = << "e", "s" >> -> [ok |-> TRUE, lang |-> "Es"]
      [] code = << "f", "r" >> -> [ok |-> TRUE, lang |-> "Fr"]
      [] code = << "d", "e" >> -> [ok |-> TRUE, lang |-> "De"]
      [] code = << "p", "t" >> -> [ok |-> TRUE, lang |-> "Pt"]
      [] code = << "j", "a" >> -> [ok |-> TRUE, lang |-> "Ja"]
      [] code = << "k", "o" >> -> [ok |-> TRUE, lang |-> "Ko"]
      [] code = << "z", "h" >> -> [ok |-> TRUE, lang |-> "Zh"]
      [] code = << "a", "r" >> -> [ok |-> TRUE, lang |-> "Ar"]
      [] code = << "r", "u" >> -> [ok |-> TRUE, lang |-> "Ru"]
      [] code = << "h", "i" >> -> [ok |-> TRUE, lang |-> "Hi"]
      [] OTHER ->
            [ok |-> FALSE,
             error |-> BadRequest(<< "Unsupported language code: '" >>
                                  \o code \o << "'. Supported: en, es, fr, de, pt, ja, ko, zh, ar, ru, hi" >>)]

\* Language::from_code: the lowercased code matched against the eleven codes.
from_code(code) ==
    LET lower == to_lowercase(code)
    IN  CASE lower = << "e", "n" >> -> [ok |-> TRUE, lang |-> "En"]
          [] lower = << "e", "s" >> -> [ok |-> TRUE, lang |-> "Es"]
          [] lower = << "f", "r" >> -> [ok |-> TRUE, lang |-> "Fr"]
          [] lower = << "d", "e" >> -> [ok |-> TRUE, lang |-> "De"]
          [] lower = << "p", "t" >> -> [ok |-> TRUE, lang |-> "Pt"]
          [] lower = << "j", "a" >> -> [ok |-> TRUE, lang |-> "Ja"]
          [] lower = << "k", "o" >> -> [ok |-> TRUE, lang |-> "Ko"]
          [] lower = << "z", "h" >> -> [ok |-> TRUE, lang |-> "Zh"]
          [] lower = << "a", "r" >> -> [ok |-> TRUE, lang |-> "Ar"]
          [] lower = << "r", "u" >> -> [ok |-> TRUE, lang |-> "Ru"]
          [] lower = << "h", "i" >> -> [ok |-> TRUE, lang |-> "Hi"]
          [] OTHER ->
                [ok |-> FALSE,
                 error |-> BadRequest(<< "Unsupported language code: '" >>
                                      \o code \o << "'. Supported: en, es, fr, de, pt, ja, ko, zh, ar, ru, hi" >>)]

\* --------------------------------------------------------------- prompt.rs
\* Variant: the two display names in the other order.
build_translation_prompt_names_swapped(from, to, text) ==
    << "<|im_start|>", "system\nYou are a professional translator.",
       "<|im_end|>", "\n",
       "<|im_start|>", "user\nTranslate the following text from ",
       display_name(to), " to ", display_name(from),
       ". Provide only the translation without any explanation.\n\n" >>
    \o text
    \o << "<|im_end|>", "\n", "<|im_start|>", "assistant\n" >>

\* The ChatML template, piece by piece, around the two names and the text.
build_translation_prompt(from, to, text) ==
    << "<|im_start|>", "system\nYou are a professional translator.",
       "<|im_end|>", "\n",
       "<|im_start|>", "user\nTranslate the following text from ",
       display_name(from), " to ", display_name(to),
       ". Provide only the translation without any explanation.\n\n" >>
    \o text
    \o << "<|im_end|>", "\n", "<|im_start|>", "assistant\n" >>

\* --------------------------------------------------------------- tokenizer
Vocab ==
    << "<|endoftext|>", "<|im_start|>", "<|im_end|>", " ", "\n", "a", "h",
       "system\nYou are a professional translator.",
       "user\nTranslate the following text from ", " to ",
       ". Provide only the translation without any explanation.\n\n",
       "assistant\n",
       "English", "Spanish", "French", "German", "Portuguese", "Japanese",
       "Korean", "Chinese", "Arabic", "Russian", "Hindi" >>

SpecialPieces == {"<|im_start|>", "<|im_end|>", "<|endoftext|>"}
Whitespace == {" ", "\n"}

token_to_id(piece) == (CHOOSE i \in 1..Len(Vocab) : Vocab[i] = piece) - 1
id_to_token(id) == Vocab[id + 1]

\* tokenizer.encode(prompt, false): the ids of the pieces, in order.
encode(prompt) == [i \in 1..Len(prompt) |-> token_to_id(prompt[i])]

\* tokenizer.decode(ids, true): the pieces of the ids, special tokens skipped.
decode(ids) ==
    LET kept == SelectSeq(ids, LAMBDA id : id_to_token(id) \notin SpecialPieces)
    IN  [i \in 1..Len(kept) |-> id_to_token(kept[i])]

\* str::trim: the text from its first to its last non-whitespace piece.
trim(s) ==
    LET solid == {i \in 1..Len(s) : s[i] \notin Whitespace}
    IN  IF solid = {} THEN << >>
        ELSE SubSeq(s, CHOOSE i \in solid : \A j \in solid : i <= j,
                       CHOOSE i \in solid : \A j \in solid : j <= i)

\* The end-of-sequence markers of the vocabulary (history bookkeeping only).
IsStopMarker(tok) == id_to_token(tok) \in {"<|im_end|>", "<|endoftext|>"}

\* Variant: only the hard-coded ids, which this vocabulary does not use.
eos_defaults_only == { DefaultEos, AlternativeEos }

\* eos_token_ids of InferenceEngine::new
eos_token_ids ==
    { token_to_id("<|im_end|>"), token_to_id("<|endoftext|>"),
      DefaultEos, AlternativeEos }

\* ------------------------------------------------------- the causal model
\* A deterministic stand-in for the weights: the logits are a function of
\* the keys/values the last layer holds and of the positions given to them.
OutTokens ==
    << token_to_id("a"), token_to_id(" "), token_to_id("a"), token_to_id(" "),
       token_to_id("<|im_start|>"), token_to_id("<|im_end|>"),
       token_to_id("<|endoftext|>") >>

ModelWeights ==
    { [a |-> 6, b |-> 4, c |-> 2],
      [a |-> 2, b |-> 0, c |-> 3] }

RECURSIVE SumRange(_, _, _)
SumRange(s, lo, hi) ==
    IF lo > hi THEN 0
    ELSE IF lo = hi THEN s[lo]
    ELSE LET mid == (lo + hi) \div 2
         IN  SumRange(s, lo, mid) + SumRange(s, mid + 1, hi)

SumSeq(s) == SumRange(s, 1, Len(s))

\* The scores of one position over the vocabulary, from the keys/values up
\* to that position: the favoured token ties with the last vocabulary entry.
Logits(w, ctx, end_pos) ==
    LET k == (w.a * SumSeq(ctx) + w.b * end_pos + w.c) % Len(OutTokens)
    IN  [i \in 1..Len(Vocab) |->
            IF i - 1 = OutTokens[k + 1] \/ i = Len(Vocab) THEN 1 ELSE 0]

\* Tensor::argmax: the index of the maximum, the lowest one among equals.
argmax(v) ==
    (CHOOSE i \in 1..Len(v) :
        /\ \A j \in 1..Len(v) : v[j] <= v[i]
        /\ \A j \in 1..(i - 1) : v[j] < v[i]) - 1

\* Variant: arg-max over the logits of the first position.
sample_token_first_position(logits) == argmax(logits[1])

\* sample_token: arg-max over the logits of the last position, seq_len - 1.
sample_token(logits) == argmax(logits[Len(logits)])

\* ------------------------------------------------------------------ inputs
Texts == UNION { [1..n -> {"h"}] : n \in 0..MaxTextLen }
Requests == { [from |-> "En", to |-> "Ko", text |-> x] : x \in Texts }

VARIABLES
    weights,            \* the loaded model weights (fixed after new)
    model_lock,         \* holder of InferenceEngine.model's Mutex, or NoHolder
    kv_cache,           \* per layer, the tokens whose keys/values it holds
    pc,                 \* each caller's position in translate
    req,                \* each caller's (from, to, text)
    input_ids,          \* translate's input_ids
    next_token,         \* translate's next_token
    generated_tokens,   \* translate's generated_tokens
    pos,                \* translate's pos
    step,               \* translate's _step
    result,             \* the value translate is returning
    last_position,      \* history: the pos given to the latest decode forward
    invocations,        \* history: model.forward calls of this call
    failed,             \* history: a step of this call failed
    first_stop          \* history: the invocation that first sampled an
                        \* end-of-sequence marker in this call, 0 when none

engine_vars ==
    << weights, model_lock, kv_cache, pc, req, input_ids, next_token,
       generated_tokens, pos, step, result, last_position, invocations,
       failed, first_stop >>

NoRequest == [from |-> "En", to |-> "En", text |-> << >>]
NoResult == [ok |-> FALSE, error |-> "none"]
Ok(text) == [ok |-> TRUE, text |-> text]
Err(msg) == [ok |-> FALSE, error |-> msg]

EmptyCache == [l \in Layers |-> << >>]

\* InferenceEngine::new: the weights are loaded, nobody holds the lock.
EngineInit ==
    /\ weights \in ModelWeights
    /\ model_lock = NoHolder
    /\ kv_cache = EmptyCache
    /\ pc = [t \in Callers |-> "idle"]
    /\ req = [t \in Callers |-> NoRequest]
    /\ input_ids = [t \in Callers |-> << >>]
    /\ next_token = [t \in Callers |-> NoToken]
    /\ generated_tokens = [t \in Callers |-> << >>]
    /\ pos = [t \in Callers |-> 0]
    /\ step = [t \in Callers |-> 0]
    /\ result = [t \in Callers |-> NoResult]
    /\ last_position = [t \in Callers |-> NoToken]
    /\ invocations = [t \in Callers |-> 0]
    /\ failed = [t \in Callers |-> FALSE]
    /\ first_stop = [t \in Callers |-> 0]

\* ------------------------------------------------------------ the model
\* Variant: a lock that never makes a caller wait.
LockAlwaysGranted(holder) == TRUE

\* Mutex::lock grants the lock only when nobody holds it.
LockFree(holder) == holder = NoHolder

\* Variant: only the first layer is cleared.
clear_first_layer_only(cache) ==
    [l \in Layers |-> IF l = 1 THEN << >> ELSE cache[l]]

\* Variant: the cache is kept from the previous generation.
keep_kv_cache(cache) == cache

\* Model::clear_kv_cache: every layer forgets its keys/values.
clear_kv_cache(cache) == [l \in Layers |-> << >>]

\* Model::forward(input, seqlen_offset) appends the input's keys/values to
\* the layers in order; a failing forward has updated the layers 1..upto.
forward_cache(cache, input, upto) ==
    [l \in Layers |-> IF l <= upto THEN cache[l] \o input ELSE cache[l]]

\* What forward returns on success: the logits of each input position, each
\* from the keys/values of the last layer up to that position.
forward_logits(cache_out, seqlen_offset, n) ==
    LET held == cache_out[NumLayers]
        before == Len(held) - n
    IN  [p \in 1..n |-> Logits(weights, SubSeq(held, 1, before + p),
                                seqlen_offset + p)]

\* Variant: the position counter skips a value.
next_pos_skipping(p) == p + 2

\* The position counter after one decode step.
next_pos(p) == p + 1

\* The locals of translate, dropped at return.
DropLocals(t) ==
    /\ req' = [req EXCEPT ![t] = NoRequest]
    /\ input_ids' = [input_ids EXCEPT ![t] = << >>]
    /\ next_token' = [next_token EXCEPT ![t] = NoToken]
    /\ generated_tokens' = [generated_tokens EXCEPT ![t] = << >>]
    /\ pos' = [pos EXCEPT ![t] = 0]
    /\ step' = [step EXCEPT ![t] = 0]

\* ----------------------------------------------------------- translate
\* Lines 228-242: build the prompt, tokenize it, make the input tensor.
Call(t, r) ==
    /\ pc[t] = "idle"
    /\ req' = [req EXCEPT ![t] = r]
    /\ input_ids' = [input_ids EXCEPT ![t] =
                        encode(build_translation_prompt(r.from, r.to, r.text))]
    /\ pc' = [pc EXCEPT ![t] = "lock"]
    /\ UNCHANGED << weights, model_lock, kv_cache, next_token,
                    generated_tokens, pos, step, result, last_position,
                    invocations, failed, first_stop >>

\* Lines 231-242 failing: tokenizer.encode or Tensor::new returns Err.
CallErr(t, r) ==
    /\ pc[t] = "idle"
    /\ req' = [req EXCEPT ![t] = r]
    /\ result' = [result EXCEPT ![t] = Err("Tokenization failed")]
    /\ failed' = [failed EXCEPT ![t] = TRUE]
    /\ pc' = [pc EXCEPT ![t] = "early"]
    /\ UNCHANGED << weights, model_lock, kv_cache, input_ids, next_token,
                    generated_tokens, pos, step, last_position, invocations,
                    first_stop >>

\* Variant: the guard is taken per invocation and dropped after the prefill.
LockForPrefillOnly(t) ==
    \/ /\ pc[t] = "lock"
       /\ model_lock = NoHolder
       /\ model_lock' = t
       /\ pc' = [pc EXCEPT ![t] = "clear"]
       /\ UNCHANGED << weights, kv_cache, req, input_ids, next_token,
                       generated_tokens, pos, step, result, last_position,
                       invocations, failed, first_stop >>
    \/ /\ pc[t] = "loop"
       /\ model_lock = t
       /\ step[t] = 0
       /\ model_lock' = NoHolder
       /\ UNCHANGED << weights, kv_cache, pc, req, input_ids, next_token,
                       generated_tokens, pos, step, result, last_position,
                       invocations, failed, first_stop >>

\* Lines 245-248: self.model.lock().
Lock(t) ==
    /\ pc[t] = "lock"
    /\ LockFree(model_lock)
    /\ model_lock' = t
    /\ pc' = [pc EXCEPT ![t] = "clear"]
    /\ UNCHANGED << weights, kv_cache, req, input_ids, next_token,
                    generated_tokens, pos, step, result, last_position,
                    invocations, failed, first_stop >>

\* Variant: the generation starts on whatever the cache holds.
SkipClearKvCache(t) ==
    /\ pc[t] = "clear"
    /\ pc' = [pc EXCEPT ![t] = "prefill"]
    /\ UNCHANGED << weights, model_lock, kv_cache, req, input_ids, next_token,
                    generated_tokens, pos, step, result, last_position,
                    invocations, failed, first_stop >>

\* Line 251: model.clear_kv_cache().
ClearKvCache(t) ==
    /\ pc[t] = "clear"
    /\ kv_cache' = clear_kv_cache(kv_cache)
    /\ pc' = [pc EXCEPT ![t] = "prefill"]
    /\ UNCHANGED << weights, model_lock, req, input_ids, next_token,
                    generated_tokens, pos, step, result, last_position,
                    invocations, failed, first_stop >>

\* Lines 254-258: the prefill pass over the whole prompt at offset 0.
Prefill(t) ==
    /\ pc[t] = "prefill"
    /\ LET out == forward_cache(kv_cache, input_ids[t], NumLayers)
           tok == sample_token(forward_logits(out, 0, Len(input_ids[t])))
       IN  /\ kv_cache' = out
           /\ next_token' = [next_token EXCEPT ![t] = tok]
    /\ generated_tokens' = [generated_tokens EXCEPT ![t] = << >>]
    /\ pos' = [pos EXCEPT ![t] = Len(input_ids[t])]
    /\ step' = [step EXCEPT ![t] = 0]
    /\ invocations' = [invocations EXCEPT ![t] = 1]
    /\ first_stop' = [first_stop EXCEPT ![t] =
                         IF IsStopMarker(next_token'[t]) THEN 1 ELSE 0]
    /\ pc' = [pc EXCEPT ![t] = "loop"]
    /\ UNCHANGED << weights, model_lock, req, input_ids, result,
                    last_position, failed >>

\* Lines 254-255 failing: forward, contiguous or sample_token returns Err
\* after the layers 1..upto took the prompt.
PrefillErr(t, upto) ==
    /\ pc[t] = "prefill"
    /\ kv_cache' = forward_cache(kv_cache, input_ids[t], upto)
    /\ invocations' = [invocations EXCEPT ![t] = 1]
    /\ result' = [result EXCEPT ![t] = Err("model")]
    /\ failed' = [failed EXCEPT ![t] = TRUE]
    /\ pc' = [pc EXCEPT ![t] = "ret"]
    /\ UNCHANGED << weights, model_lock, req, input_ids, next_token,
                    generated_tokens, pos, step, last_position, first_stop >>

\* Lines 261-277: one iteration of the decode loop that runs to its end.
DecodeStep(t) ==
    /\ pc[t] = "loop"
    /\ step[t] < MAX_NEW_TOKENS
    /\ next_token[t] \notin eos_token_ids
    /\ generated_tokens' = [generated_tokens EXCEPT ![t] =
                               Append(@, next_token[t])]
    /\ LET out == forward_cache(kv_cache, << next_token[t] >>, NumLayers)
           tok == sample_token(forward_logits(out, pos[t], 1))
       IN  /\ kv_cache' = out
           /\ next_token' = [next_token EXCEPT ![t] = tok]
    /\ last_position' = [last_position EXCEPT ![t] = pos[t]]
    /\ invocations' = [invocations EXCEPT ![t] = @ + 1]
    /\ first_stop' = [first_stop EXCEPT ![t] =
                         IF @ = 0 /\ IsStopMarker(next_token'[t])
                         THEN invocations'[t] ELSE @]
    /\ pos' = [pos EXCEPT ![t] = next_pos(@)]
    /\ step' = [step EXCEPT ![t] = @ + 1]
    /\ UNCHANGED << weights, model_lock, pc, req, input_ids, result, failed >>

\* Variant: a failing decode step returns what was generated so far.
DecodeStepErrPartial(t, upto) ==
    /\ pc[t] = "loop"
    /\ step[t] < MAX_NEW_TOKENS
    /\ next_token[t] \notin eos_token_ids
    /\ generated_tokens' = [generated_tokens EXCEPT ![t] =
                               Append(@, next_token[t])]
    /\ kv_cache' = forward_cache(kv_cache, << next_token[t] >>, upto)
    /\ last_position' = [last_position EXCEPT ![t] = pos[t]]
    /\ invocations' = [invocations EXCEPT ![t] = @ + 1]
    /\ result' = [result EXCEPT ![t] =
                     Ok(trim(decode(generated_tokens'[t])))]
    /\ failed' = [failed EXCEPT ![t] = TRUE]
    /\ pc' = [pc EXCEPT ![t] = "ret"]
    /\ UNCHANGED << weights, model_lock, req, input_ids, next_token, pos,
                    step, first_stop >>

\* Lines 267-276 failing: the token is pushed, then Tensor::new, forward,
\* contiguous or sample_token returns Err after the layers 1..upto took it.
DecodeStepErr(t, upto) ==
    /\ pc[t] = "loop"
    /\ step[t] < MAX_NEW_TOKENS
    /\ next_token[t] \notin eos_token_ids
    /\ generated_tokens' = [generated_tokens EXCEPT ![t] =
                               Append(@, next_token[t])]
    /\ kv_cache' = forward_cache(kv_cache, << next_token[t] >>, upto)
    /\ last_position' = [last_position EXCEPT ![t] = pos[t]]
    /\ invocations' = [invocations EXCEPT ![t] = @ + 1]
    /\ result' = [result EXCEPT ![t] = Err("model")]
    /\ failed' = [failed EXCEPT ![t] = TRUE]
    /\ pc' = [pc EXCEPT ![t] = "ret"]
    /\ UNCHANGED << weights, model_lock, req, input_ids, next_token, pos,
                    step, first_stop >>

\* Lines 262-265: the predicted token is a stop token: break.
StopToken(t) ==
    /\ pc[t] = "loop"
    /\ step[t] < MAX_NEW_TOKENS
    /\ next_token[t] \in eos_token_ids
    /\ pc' = [pc EXCEPT ![t] = "decode"]
    /\ UNCHANGED << weights, model_lock, kv_cache, req, input_ids, next_token,
                    generated_tokens, pos, step, result, last_position,
                    invocations, failed, first_stop >>

\* Variant: the loop gives up one step early.
StepCapOneEarly(t) ==
    /\ pc[t] = "loop"
    /\ step[t] = MAX_NEW_TOKENS - 1
    /\ pc' = [pc EXCEPT ![t] = "decode"]
    /\ UNCHANGED << weights, model_lock, kv_cache, req, input_ids, next_token,
                    generated_tokens, pos, step, result, last_position,
                    invocations, failed, first_stop >>

\* Line 261: the range 0..MAX_NEW_TOKENS is exhausted.
StepCap(t) ==
    /\ pc[t] = "loop"
    /\ step[t] = MAX_NEW_TOKENS
    /\ pc' = [pc EXCEPT ![t] = "decode"]
    /\ UNCHANGED << weights, model_lock, kv_cache, req, input_ids, next_token,
                    generated_tokens, pos, step, result, last_position,
                    invocations, failed, first_stop >>

\* Lines 283-288: decode the generated tokens, trim, Ok.
Detokenize(t) ==
    /\ pc[t] = "decode"
    /\ result' = [result EXCEPT ![t] = Ok(trim(decode(generated_tokens[t])))]
    /\ pc' = [pc EXCEPT ![t] = "ret"]
    /\ UNCHANGED << weights, model_lock, kv_cache, req, input_ids, next_token,
                    generated_tokens, pos, step, last_position, invocations,
                    failed, first_stop >>

\* Lines 283-286 failing: tokenizer.decode returns Err.
DetokenizeErr(t) ==
    /\ pc[t] = "decode"
    /\ result' = [result EXCEPT ![t] = Err("Decoding failed")]
    /\ failed' = [failed EXCEPT ![t] = TRUE]
    /\ pc' = [pc EXCEPT ![t] = "ret"]
    /\ UNCHANGED << weights, model_lock, kv_cache, req, input_ids, next_token,
                    generated_tokens, pos, step, last_position, invocations,
                    first_stop >>

\* Variant: an error return forgets the guard without unlocking.
DropGuardOnSuccessOnly(t, holder) ==
    IF holder = t /\ result[t].ok THEN NoHolder ELSE holder

\* The lock after translate's locals are dropped: the MutexGuard, when this
\* call holds one, unlocks.
DropGuard(t, holder) == IF holder = t THEN NoHolder ELSE holder

\* Line 289 and every `?`: translate returns; its locals are dropped, the
\* guard among them, and the caller takes the result.
Return(t) ==
    /\ pc[t] \in {"ret", "early"}
    /\ model_lock' = DropGuard(t, model_lock)
    /\ DropLocals(t)
    /\ result' = [result EXCEPT ![t] = NoResult]
    /\ last_position' = [last_position EXCEPT ![t] = NoToken]
    /\ invocations' = [invocations EXCEPT ![t] = 0]
    /\ failed' = [failed EXCEPT ![t] = FALSE]
    /\ first_stop' = [first_stop EXCEPT ![t] = 0]
    /\ pc' = [pc EXCEPT ![t] = "idle"]
    /\ UNCHANGED << weights, kv_cache >>

\* ------------------------------------------------- one call after another
\* The caller of the specifications that run one request at a time.
Solo == CHOOSE t \in Callers : TRUE

VARIABLES
    baseline,           \* history: one earlier call that returned Ok
    since               \* history: the kinds of the calls returned since then

repeat_vars == << baseline, since >>

NoBaseline == [set |-> FALSE]

RepeatInit ==
    /\ baseline = NoBaseline
    /\ since = {}

\* How the call that is returning ended.
Kind(t) ==
    IF ~result[t].ok THEN "failed"
    ELSE IF first_stop[t] = 0 THEN "truncated"
    ELSE "stopped"

\* translate returns; the history remembers this call as the baseline, or
\* counts it among the calls that came after the baseline.
ReturnNoted(t) ==
    /\ Return(t)
    /\ \/ /\ baseline = NoBaseline
          /\ result[t].ok
          /\ baseline' = [set |-> TRUE, req |-> req[t], text |-> result[t].text]
          /\ since' = {}
       \/ /\ baseline' = baseline
          /\ since' = IF baseline = NoBaseline THEN {} ELSE since \cup {Kind(t)}

\* -------------------------------------------------------- apikey/store.rs
\* Times are whole ticks of the wall clock.  A key string is a UUID, drawn
\* fresh by every add, or a string that is no key of the store.
None == [some |-> FALSE]
Some(x) == [some |-> TRUE, value |-> x]
NoFile == [exists |-> FALSE]

Uuid(n) == "uuid-" \o ToString(n)
KeyStrings == {Uuid(n) : n \in 1..MaxKeys} \cup {"nonexistent"}
Times == 0..MaxTime
\* The expiry the admin's form gives a key: none, or the one instant that
\* the clock can be before, at and after.
ExpiryTime == 1
Expiries == {None, Some(ExpiryTime)}

VARIABLES
    keys,               \* ApiKeyStore.keys
    file,               \* the file at ApiKeyStore.file_path
    utc_now,            \* Utc::now()
    issued,             \* how many UUIDs Uuid::new_v4 has drawn
    store_op,           \* history: the latest add, revoke or load
    clean,              \* history: no add or revoke failed since the load
    revoked_ok,         \* history: the keys whose revoke returned Ok(true)
    born_expired        \* history: the keys added with an expiry in the past

store_vars ==
    << keys, file, utc_now, issued, store_op, clean, revoked_ok,
       born_expired >>

\* Variant: a key counts as expired from the instant of its expiry.
is_expired_from_expiry(k) ==
    k.expires_at.some /\ utc_now >= k.expires_at.value

\* ApiKey::is_expired
is_expired(k) == k.expires_at.some /\ utc_now > k.expires_at.value

\* ApiKey::is_valid
is_valid(k) == ~k.revoked /\ ~is_expired(k)

\* ApiKeyStore::validate
validate(key) == \E i \in 1..Len(keys) : keys[i].key = key /\ is_valid(keys[i])

\* DateTime<Utc> as serde writes and reads it (RFC 3339).
rfc3339(t) == "T" \o ToString(t) \o "Z"
parse_rfc3339(str) == CHOOSE t \in Times : rfc3339(t) = str

\* Variant: the revoked flag is written as false whatever it is.
to_json_never_revoked(k) ==
    [key |-> k.key,
     label |-> k.label,
     created_at |-> rfc3339(k.created_at),
     expires_at |-> IF k.expires_at.some THEN rfc3339(k.expires_at.value)
                    ELSE "null",
     revoked |-> "false"]

\* Serialize for ApiKey: the JSON object of one key.
to_json(k) ==
    [key |-> k.key,
     label |-> k.label,
     created_at |-> rfc3339(k.created_at),
     expires_at |-> IF k.expires_at.some THEN rfc3339(k.expires_at.value)
                    ELSE "null",
     revoked |-> IF k.revoked THEN "true" ELSE "false"]

\* Deserialize for ApiKey
from_json(o) ==
    [key |-> o.key,
     label |-> o.label,
     created_at |-> parse_rfc3339(o.created_at),
     expires_at |-> IF o.expires_at = "null" THEN None
                    ELSE Some(parse_rfc3339(o.expires_at)),
     revoked |-> o.revoked = "true"]

\* serde_json::to_string_pretty and from_str of ApiKeysFile
to_string_pretty(ks) == [i \in 1..Len(ks) |-> to_json(ks[i])]
from_str(content) == [i \in 1..Len(content) |-> from_json(content[i])]

\* ApiKeyStore::load_or_create: the key list of the loaded store.
load_or_create(f) == IF f.exists THEN from_str(f.content) ELSE << >>

\* ApiKeyStore::save: the file written from the key list.
save(ks) == [exists |-> TRUE, content |-> to_string_pretty(ks)]

StoreInit ==
    /\ file = NoFile
    /\ keys = load_or_create(NoFile)
    /\ utc_now = 0
    /\ issued = 0
    /\ store_op = [op |-> "load", ok |-> TRUE]
    /\ clean = TRUE
    /\ revoked_ok = {}
    /\ born_expired = {}

\* What add pushes: a fresh key, not revoked.
NewKey(label, expires_at) ==
    [key |-> Uuid(issued + 1),
     label |-> label,
     created_at |-> utc_now,
     expires_at |-> expires_at,
     revoked |-> FALSE]

NoteAdd(api_key, ok) ==
    /\ issued' = issued + 1
    /\ store_op' = [op |-> "add", ok |-> ok, key |-> api_key.key,
                    expires_at |-> api_key.expires_at]
    /\ clean' = (clean /\ ok)
    /\ born_expired' =
          IF api_key.expires_at.some /\ api_key.expires_at.value < utc_now
          THEN born_expired \cup {api_key.key} ELSE born_expired
    /\ UNCHANGED << utc_now, revoked_ok >>

\* ApiKeyStore::add returning Ok(api_key).
Add(label, expires_at) ==
    /\ issued < MaxKeys
    /\ keys' = Append(keys, NewKey(label, expires_at))
    /\ file' = save(keys')
    /\ NoteAdd(NewKey(label, expires_at), TRUE)

\* ApiKeyStore::add returning Err: the key is pushed, save fails.
AddSaveErr(label, expires_at) ==
    /\ issued < MaxKeys
    /\ keys' = Append(keys, NewKey(label, expires_at))
    /\ file' = file
    /\ NoteAdd(NewKey(label, expires_at), FALSE)

\* The first entry with this key, as iter_mut().find sees it.
Find(key) ==
    CHOOSE i \in 1..Len(keys) :
        /\ keys[i].key = key
        /\ \A j \in 1..(i - 1) : keys[j].key # key

\* Variant: revoke writes the file and leaves the key as it was.
revoke_entry_untouched(key) == keys

\* The key list after revoke has set the entry's flag.
revoke_entry(key) == [keys EXCEPT ![Find(key)].revoked = TRUE]

\* ApiKeyStore::revoke returning Ok(true).
Revoke(key) ==
    /\ \E i \in 1..Len(keys) : keys[i].key = key
    /\ keys' = revoke_entry(key)
    /\ file' = save(keys')
    /\ store_op' = [op |-> "revoke", ok |-> TRUE, key |-> key, found |-> TRUE]
    /\ revoked_ok' = revoked_ok \cup {key}
    /\ UNCHANGED << utc_now, issued, clean, born_expired >>

\* ApiKeyStore::revoke returning Err: the flag is set, save fails.
RevokeSaveErr(key) ==
    /\ \E i \in 1..Len(keys) : keys[i].key = key
    /\ keys' = revoke_entry(key)
    /\ store_op' = [op |-> "revoke", ok |-> FALSE, key |-> key, found |-> TRUE]
    /\ clean' = FALSE
    /\ UNCHANGED << file, utc_now, issued, revoked_ok, born_expired >>

\* ApiKeyStore::revoke returning Ok(false): no entry has this key.
RevokeUnknown(key) ==
    /\ \A i \in 1..Len(keys) : keys[i].key # key
    /\ store_op' = [op |-> "revoke", ok |-> TRUE, key |-> key, found |-> FALSE]
    /\ UNCHANGED << keys, file, utc_now, issued, clean, revoked_ok,
                    born_expired >>

\* The wall clock moves on.
Tick ==
    /\ utc_now < MaxTime
    /\ utc_now' = utc_now + 1
    /\ UNCHANGED << keys, file, issued, store_op, clean, revoked_ok,
                    born_expired >>

\* The server starts again: load_or_create on the same path (main.rs 33).
Restart ==
    /\ keys' = load_or_create(file)
    /\ store_op' = [op |-> "load", ok |-> TRUE]
    /\ clean' = TRUE
    /\ UNCHANGED << file, utc_now, issued, revoked_ok, born_expired >>

\* --------------------------------------- api/auth.rs and api/translate.rs
\* An Authorization header: absent, not text, or a text value, written as
\* the scheme prefix followed by the rest.
NoHeader == [present |-> FALSE]
OpaqueHeader == [present |-> TRUE, text |-> FALSE]
Header(prefix, rest) ==
    [present |-> TRUE, text |-> TRUE, value |-> << prefix, rest >>]

\* BearerToken::from_request_parts
from_request_parts(h) ==
    IF ~h.present
    THEN [ok |-> FALSE,
          error |-> Unauthorized(<< "Missing Authorization header" >>)]
    ELSE IF ~h.text
    THEN [ok |-> FALSE,
          error |-> Unauthorized(<< "Invalid Authorization header value" >>)]
    ELSE IF h.value[1] # "Bearer "
    THEN [ok |-> FALSE, error |-> Unauthorized(<< "Expected Bearer token" >>)]
    ELSE [ok |-> TRUE, token |-> h.value[2]]

\* The requests sent to /api/translate.
ApiTokens == {Uuid(1), Uuid(2), Uuid(3), "nonexistent"}
ApiHeaders ==
    {NoHeader, OpaqueHeader, Header("Basic ", Uuid(1))}
    \cup {Header("Bearer ", k) : k \in ApiTokens}
ApiCodes == { << << "e", "n" >>, << "K", "O" >> >>,
              << << "x", "x" >>, << "K", "O" >> >>,
              << << "e", "n" >>, << >> >> }
ApiTexts == { << >>, << "h" >> }
ApiRequests ==
    { [header |-> h, from |-> c[1], to |-> c[2], text |-> x] :
          h \in ApiHeaders, c \in ApiCodes, x \in ApiTexts }

VARIABLES
    hpc,                \* the handler's position
    http_req,           \* the request: Authorization header and params
    token,              \* do_translate's token
    from_lang,          \* do_translate's from_lang
    to_lang,            \* do_translate's to_lang
    task,               \* what awaiting the blocking task gave
    response,           \* the response sent
    poisoned            \* the poison flag of InferenceEngine.model's Mutex

api_vars ==
    << hpc, http_req, token, from_lang, to_lang, task, response, poisoned >>

NoHttpRequest ==
    [header |-> NoHeader, from |-> << >>, to |-> << >>, text |-> << >>]
NoTask == [done |-> FALSE, ok |-> FALSE]
NoResponse == [status |-> 0, body |-> << >>]

ApiInit ==
    /\ hpc = "idle"
    /\ http_req = NoHttpRequest
    /\ token = None
    /\ from_lang = None
    /\ to_lang = None
    /\ task = NoTask
    /\ response = NoResponse
    /\ poisoned = FALSE

\* A store that has been in use: a valid key, a revoked key and a key whose
\* expiry has passed.
ServingStore ==
    /\ keys = << [key |-> Uuid(1), label |-> "test", created_at |-> 0,
                  expires_at |-> None, revoked |-> FALSE],
                 [key |-> Uuid(2), label |-> "test", created_at |-> 0,
                  expires_at |-> None, revoked |-> TRUE],
                 [key |-> Uuid(3), label |-> "test", created_at |-> 0,
                  expires_at |-> Some(ExpiryTime), revoked |-> FALSE] >>
    /\ file = save(keys)
    /\ utc_now = ExpiryTime + 1
    /\ issued = Len(keys)
    /\ store_op = [op |-> "load", ok |-> TRUE]
    /\ clean = TRUE
    /\ revoked_ok = {Uuid(2)}
    /\ born_expired = {}

\* A request arrives; the handler's locals are fresh.
Request(r) ==
    /\ hpc \in {"idle", "done"}
    /\ http_req' = r
    /\ token' = None
    /\ from_lang' = None
    /\ to_lang' = None
    /\ task' = NoTask
    /\ response' = NoResponse
    /\ hpc' = "extract"
    /\ UNCHANGED poisoned

\* translate_get, translate_post: the BearerToken extractor runs first.
Extract ==
    /\ hpc = "extract"
    /\ LET r == from_request_parts(http_req.header)
       IN  IF r.ok
           THEN /\ token' = Some(r.token)
                /\ hpc' = "validate"
                /\ UNCHANGED response
           ELSE /\ response' = into_response(r.error)
                /\ hpc' = "done"
                /\ UNCHANGED token
    /\ UNCHANGED << http_req, from_lang, to_lang, task, poisoned >>

\* Variant: an invalid key is noticed and the request goes on.
ValidateKeyAndGoOn ==
    /\ hpc = "validate"
    /\ hpc' = "from"
    /\ UNCHANGED << http_req, token, from_lang, to_lang, task, response,
                    poisoned >>

\* do_translate lines 24-28
ValidateKey ==
    /\ hpc = "validate"
    /\ IF validate(token.value)
       THEN /\ hpc' = "from"
            /\ UNCHANGED response
       ELSE /\ response' = into_response(
                               Unauthorized(<< "Invalid or expired API key" >>))
            /\ hpc' = "done"
    /\ UNCHANGED << http_req, token, from_lang, to_lang, task, poisoned >>

\* do_translate line 31
ParseFrom ==
    /\ hpc = "from"
    /\ LET r == from_code(http_req.from)
       IN  IF r.ok
           THEN /\ from_lang' = Some(r.lang)
                /\ hpc' = "to"
                /\ UNCHANGED response
           ELSE /\ response' = into_response(r.error)
                /\ hpc' = "done"
                /\ UNCHANGED from_lang
    /\ UNCHANGED << http_req, token, to_lang, task, poisoned >>

\* do_translate line 32
ParseTo ==
    /\ hpc = "to"
    /\ LET r == from_code(http_req.to)
       IN  IF r.ok
           THEN /\ to_lang' = Some(r.lang)
                /\ hpc' = "spawn"
                /\ UNCHANGED response
           ELSE /\ response' = into_response(r.error)
                /\ hpc' = "done"
                /\ UNCHANGED to_lang
    /\ UNCHANGED << http_req, token, from_lang, task, poisoned >>

\* What do_translate passes to translate.
Parsed ==
    [from |-> from_lang.value, to |-> to_lang.value, text |-> http_req.text]

\* do_translate lines 35-39: the blocking task starts translate.
Spawn ==
    /\ hpc = "spawn"
    /\ hpc' = "await"
    /\ UNCHANGED << http_req, token, from_lang, to_lang, task, response,
                    poisoned >>

\* The blocking task is inside translate; the handler awaits it.
Awaiting ==
    /\ hpc = "await"
    /\ UNCHANGED api_vars

\* What awaiting gives for a task that ran to its return.
Joined(r) ==
    IF r.ok THEN [done |-> TRUE, ok |-> TRUE, text |-> r.text]
    ELSE [done |-> TRUE, ok |-> FALSE, error |-> << r.error >>]

JoinError == [done |-> TRUE, ok |-> FALSE, error |-> << "Task join error" >>]

\* do_translate lines 40-43 and Result<String, AppError>::into_response.
Respond(joined) ==
    IF joined.ok THEN [status |-> 200, body |-> joined.text]
    ELSE into_response(Internal(joined.error))

\* translate returns and the await completes.
Join(t) ==
    /\ hpc = "await"
    /\ Return(t)
    /\ task' = Joined(result[t])
    /\ response' = Respond(Joined(result[t]))
    /\ hpc' = "done"
    /\ UNCHANGED << http_req, token, from_lang, to_lang, poisoned >>

\* A library call inside translate panics: the task unwinds, its locals are
\* dropped, a guard it holds poisons and releases the lock, and the await
\* gives a JoinError.
Panic(t) ==
    /\ hpc = "await"
    /\ pc[t] \in {"lock", "clear", "prefill", "loop", "decode"}
    /\ poisoned' = (poisoned \/ model_lock = t)
    /\ model_lock' = DropGuard(t, model_lock)
    /\ DropLocals(t)
    /\ result' = [result EXCEPT ![t] = NoResult]
    /\ last_position' = [last_position EXCEPT ![t] = NoToken]
    /\ invocations' = [invocations EXCEPT ![t] = 0]
    /\ failed' = [failed EXCEPT ![t] = FALSE]
    /\ first_stop' = [first_stop EXCEPT ![t] = 0]
    /\ pc' = [pc EXCEPT ![t] = "idle"]
    /\ task' = JoinError
    /\ response' = Respond(JoinError)
    /\ hpc' = "done"
    /\ UNCHANGED << weights, kv_cache, http_req, token, from_lang, to_lang >>

\* Lines 245-248 on a poisoned Mutex: lock returns Err, the guard inside the
\* error is dropped with it.
LockPoisoned(t) ==
    /\ pc[t] = "lock"
    /\ LockFree(model_lock)
    /\ poisoned
    /\ result' = [result EXCEPT ![t] = Err("Model lock poisoned")]
    /\ failed' = [failed EXCEPT ![t] = TRUE]
    /\ pc' = [pc EXCEPT ![t] = "early"]
    /\ UNCHANGED << weights, model_lock, kv_cache, req, input_ids, next_token,
                    generated_tokens, pos, step, last_position, invocations,
                    first_stop >>

\* ---------------------------------------------------- admin/brute_force.rs
\* Instants are seconds of the monotonic clock: the start, a second later,
\* and the block duration after each of the two.
Ips == {"10.0.0.1", "10.0.0.2"}
Instants == {0, 1, BLOCK_DURATION, BLOCK_DURATION + 1}

VARIABLES
    attempts,           \* LoginTracker.attempts
    now,                \* Instant::now()
    failures_since,     \* history: record_failure calls since the IP's
                        \* latest record_success
    oldest_failure,     \* history: the instant of the first of them
    tracker_op          \* history: the latest operation

tracker_vars ==
    << attempts, now, failures_since, oldest_failure, tracker_op >>

Absent == [known |-> FALSE]

\* LoginTracker::new
TrackerInit ==
    /\ attempts = [ip \in Ips |-> Absent]
    /\ now = 0
    /\ failures_since = [ip \in Ips |-> 0]
    /\ oldest_failure = [ip \in Ips |-> None]
    /\ tracker_op = [op |-> "new"]

\* Instant::elapsed
elapsed(at) == now - at

\* Variant: the threshold is passed only above MAX_FAILED_ATTEMPTS.
is_blocked_above_threshold(ip) ==
    /\ attempts[ip].known
    /\ attempts[ip].failed_count > MAX_FAILED_ATTEMPTS
    /\ elapsed(attempts[ip].last_failed_at) < BLOCK_DURATION

\* LoginTracker::is_blocked
is_blocked(ip) ==
    /\ attempts[ip].known
    /\ attempts[ip].failed_count >= MAX_FAILED_ATTEMPTS
    /\ elapsed(attempts[ip].last_failed_at) < BLOCK_DURATION

\* Variant: an expired block does not reset the count.
record_failure_keeping_count(ip) ==
    LET info == IF attempts[ip].known THEN attempts[ip]
                ELSE [known |-> TRUE, failed_count |-> 0,
                      last_failed_at |-> now]
    IN  [attempts EXCEPT ![ip] = [known |-> TRUE,
                                  failed_count |-> info.failed_count + 1,
                                  last_failed_at |-> now]]

\* LoginTracker::record_failure: the attempts map afterwards.
record_failure(ip) ==
    LET info == IF attempts[ip].known THEN attempts[ip]
                ELSE [known |-> TRUE, failed_count |-> 0,
                      last_failed_at |-> now]
        count == IF /\ info.failed_count >= MAX_FAILED_ATTEMPTS
                    /\ elapsed(info.last_failed_at) >= BLOCK_DURATION
                 THEN 0 ELSE info.failed_count
    IN  [attempts EXCEPT ![ip] = [known |-> TRUE, failed_count |-> count + 1,
                                  last_failed_at |-> now]]

\* Variant: a success takes one failure off the count.
record_success_forgiving_one(ip) ==
    IF attempts[ip].known /\ attempts[ip].failed_count > 1
    THEN [attempts EXCEPT ![ip].failed_count = @ - 1]
    ELSE [attempts EXCEPT ![ip] = Absent]

\* LoginTracker::record_success: the attempts map afterwards.
record_success(ip) == [attempts EXCEPT ![ip] = Absent]

RecordFailure(ip) ==
    /\ failures_since[ip] < MaxFailures
    /\ attempts' = record_failure(ip)
    /\ failures_since' = [failures_since EXCEPT ![ip] = @ + 1]
    /\ oldest_failure' = [oldest_failure EXCEPT ![ip] =
                             IF failures_since[ip] = 0 THEN Some(now) ELSE @]
    /\ tracker_op' = [op |-> "record_failure", ip |-> ip,
                      blocked_before |-> is_blocked(ip)]
    /\ UNCHANGED now

RecordSuccess(ip) ==
    /\ attempts' = record_success(ip)
    /\ failures_since' = [failures_since EXCEPT ![ip] = 0]
    /\ oldest_failure' = [oldest_failure EXCEPT ![ip] = None]
    /\ tracker_op' = [op |-> "record_success", ip |-> ip,
                      blocked_before |-> is_blocked(ip)]
    /\ UNCHANGED now

\* The monotonic clock moves on.
Advance(t) ==
    /\ t > now
    /\ now' = t
    /\ tracker_op' = [op |-> "wait"]
    /\ UNCHANGED << attempts, failures_since, oldest_failure >>

\* ------------------------------------- admin/routes.rs: admin_login_submit
\* Concurrent login submissions from one address, each run by its own task.
ClientIp == CHOOSE ip \in Ips : TRUE
AdminConfig == [username |-> "admin", password |-> "secret"]
SessionTokens == {"session-1"}

\* The forms posted: the admin credentials and a wrong password.
LoginForms == {AdminConfig, [AdminConfig EXCEPT !.password = "guess"]}

VARIABLES
    lpc,                \* each submission's position in admin_login_submit
    form,               \* each submission's LoginForm
    login_response,     \* the response each submission got
    sessions            \* SessionStore.sessions: token to created_at

login_vars == << lpc, form, login_response, sessions >>

NoLoginResponse == [status |-> 0]

LoginInit ==
    /\ lpc = [h \in 1..NumSubmitters |-> "idle"]
    /\ form = [h \in 1..NumSubmitters |-> AdminConfig]
    /\ login_response = [h \in 1..NumSubmitters |-> NoLoginResponse]
    /\ sessions = [tok \in SessionTokens |-> None]

\* A login form is posted; every submission in flight may still record a
\* failure.
Submit(h, f) ==
    /\ lpc[h] = "idle"
    /\ failures_since[ClientIp]
          + Cardinality({g \in 1..NumSubmitters : lpc[g] # "idle"})
          < MaxFailures
    /\ form' = [form EXCEPT ![h] = f]
    /\ login_response' = [login_response EXCEPT ![h] = NoLoginResponse]
    /\ lpc' = [lpc EXCEPT ![h] = "check"]
    /\ UNCHANGED << tracker_vars, sessions >>

\* Variant: the block is not looked at when the credentials are right.
CheckBlockUnlessRight(h) ==
    /\ lpc[h] = "check"
    /\ IF is_blocked(ClientIp) /\ form[h] # AdminConfig
       THEN /\ login_response' =
                  [login_response EXCEPT ![h] = [status |-> 403]]
            /\ lpc' = [lpc EXCEPT ![h] = "idle"]
       ELSE /\ lpc' = [lpc EXCEPT ![h] = "compare"]
            /\ UNCHANGED login_response
    /\ UNCHANGED << tracker_vars, form, sessions >>

\* Lines 83-94: is_blocked under the tracker lock, which is dropped at the
\* end of the block.
CheckBlock(h) ==
    /\ lpc[h] = "check"
    /\ IF is_blocked(ClientIp)
       THEN /\ login_response' =
                  [login_response EXCEPT ![h] = [status |-> 403]]
            /\ lpc' = [lpc EXCEPT ![h] = "idle"]
       ELSE /\ lpc' = [lpc EXCEPT ![h] = "compare"]
            /\ UNCHANGED login_response
    /\ UNCHANGED << tracker_vars, form, sessions >>

\* Lines 97-98: the form against the admin credentials, no lock held.
Compare(h) ==
    /\ lpc[h] = "compare"
    /\ lpc' = [lpc EXCEPT ![h] =
                  IF /\ form[h].username = AdminConfig.username
                     /\ form[h].password = AdminConfig.password
                  THEN "success" ELSE "failure"]
    /\ UNCHANGED << tracker_vars, form, login_response, sessions >>

\* Line 101: record_success under the tracker lock.
LoginSuccess(h) ==
    /\ lpc[h] = "success"
    /\ RecordSuccess(ClientIp)
    /\ lpc' = [lpc EXCEPT ![h] = "session"]
    /\ UNCHANGED << form, login_response, sessions >>

\* Lines 102-108: SessionStore::create under the sessions lock with a
\* random token, and the redirect carrying it as a cookie.
CreateSession(h, tok) ==
    /\ lpc[h] = "session"
    /\ sessions' = [sessions EXCEPT ![tok] = Some(now)]
    /\ login_response' =
          [login_response EXCEPT ![h] = [status |-> 303, session |-> tok]]
    /\ lpc' = [lpc EXCEPT ![h] = "idle"]
    /\ UNCHANGED << tracker_vars, form >>

\* Lines 111-117: record_failure under the tracker lock, then 401.
LoginFailure(h) ==
    /\ lpc[h] = "failure"
    /\ RecordFailure(ClientIp)
    /\ login_response' = [login_response EXCEPT ![h] = [status |-> 401]]
    /\ lpc' = [lpc EXCEPT ![h] = "idle"]
    /\ UNCHANGED << form, sessions >>

\* ------------------------------------------------- the functions, one call
\* from_code, build_translation_prompt and sample_token applied to one
\* argument each: args is what the function is called with, returned what
\* it gave back.
VARIABLES
    args,
    returned

fn_vars == << args, returned >>

NoArgs == << >>
NotReturned == [done |-> FALSE]
Returned(value) == [done |-> TRUE, value |-> value]

FnInit ==
    /\ args = NoArgs
    /\ returned = NotReturned

\* The strings given to from_code.
Codes == UNION { [1..n -> Chars] : n \in 0..MaxCodeLen }

\* The texts given to build_translation_prompt: a letter and the pieces
\* the template itself is made of.
TextPieces == {"h", "<|im_start|>", "<|im_end|>", "assistant\n"}
PromptTexts == UNION { [1..n -> TextPieces] : n \in 0..(MaxTextLen + 1) }
PromptArgs == [from : Language, to : Language, text : PromptTexts]

\* The logits given to sample_token: [seq_len, vocab_size] of batch 0.
VocabSize == 3
LogitValues == {0, 1, 2}
LogitTensors ==
    UNION { [1..n -> [1..VocabSize -> LogitValues]] : n \in 1..MaxSeqLen }

FromCode ==
    /\ ~returned.done
    /\ returned' = Returned(from_code(args))
    /\ UNCHANGED args

BuildTranslationPrompt ==
    /\ ~returned.done
    /\ returned' =
          Returned(build_translation_prompt(args.from, args.to, args.text))
    /\ UNCHANGED args

SampleToken ==
    /\ ~returned.done
    /\ returned' = Returned(sample_token(args))
    /\ UNCHANGED args

\* ------------------------------------------------------ the whole program
vars ==
    << engine_vars, repeat_vars, store_vars, api_vars, tracker_vars,
       login_vars, fn_vars >>

not_engine ==
    << repeat_vars, store_vars, api_vars, tracker_vars, login_vars, fn_vars >>
not_repeat == << store_vars, api_vars, tracker_vars, login_vars, fn_vars >>
not_store ==
    << engine_vars, repeat_vars, api_vars, tracker_vars, login_vars, fn_vars >>
not_api == << repeat_vars, store_vars, tracker_vars, login_vars, fn_vars >>
not_tracker ==
    << engine_vars, repeat_vars, store_vars, api_vars, login_vars, fn_vars >>
not_login == << engine_vars, repeat_vars, store_vars, api_vars, fn_vars >>
not_fn ==
    << engine_vars, repeat_vars, store_vars, api_vars, tracker_vars,
       login_vars >>

\* The state after construction (main.rs lines 30-41).
Init ==
    /\ EngineInit
    /\ RepeatInit
    /\ StoreInit
    /\ ApiInit
    /\ TrackerInit
    /\ LoginInit
    /\ FnInit

\* The state after construction in the specifications that are not about
\* the engine: one of the weights.
Started == Init /\ weights = CHOOSE w \in ModelWeights : TRUE

\* Concurrent callers of translate.
Next ==
    \/ \E t \in Callers, r \in Requests : Call(t, r) /\ UNCHANGED not_engine
    \/ \E t \in Callers, r \in Requests : CallErr(t, r) /\ UNCHANGED not_engine
    \/ \E t \in Callers : Lock(t) /\ UNCHANGED not_engine
    \/ \E t \in Callers : ClearKvCache(t) /\ UNCHANGED not_engine
    \/ \E t \in Callers : Prefill(t) /\ UNCHANGED not_engine
    \/ \E t \in Callers, upto \in 0..NumLayers :
          PrefillErr(t, upto) /\ UNCHANGED not_engine
    \/ \E t \in Callers : DecodeStep(t) /\ UNCHANGED not_engine
    \/ \E t \in Callers, upto \in 0..NumLayers :
          DecodeStepErr(t, upto) /\ UNCHANGED not_engine
    \/ \E t \in Callers : StopToken(t) /\ UNCHANGED not_engine
    \/ \E t \in Callers : StepCap(t) /\ UNCHANGED not_engine
    \/ \E t \in Callers : Detokenize(t) /\ UNCHANGED not_engine
    \/ \E t \in Callers : DetokenizeErr(t) /\ UNCHANGED not_engine
    \/ \E t \in Callers : Return(t) /\ UNCHANGED not_engine

Spec == Init /\ [][Next]_vars

\* A caller waiting in Mutex::lock takes the lock.
Acquire(t) == Lock(t) /\ UNCHANGED not_engine

\* Concurrent callers on std::sync::Mutex: a thread waiting in lock takes
\* the lock when the lock stays free; the Mutex promises no order among the
\* threads that want it.
SpecFair == Spec /\ \A t \in Callers : WF_vars(Acquire(t))

\* One caller making call after call, each remembered in the history.
NextRepeat ==
    \/ \E r \in Requests : Call(Solo, r) /\ UNCHANGED << repeat_vars, not_repeat >>
    \/ \E r \in Requests : CallErr(Solo, r) /\ UNCHANGED << repeat_vars, not_repeat >>
    \/ Lock(Solo) /\ UNCHANGED << repeat_vars, not_repeat >>
    \/ ClearKvCache(Solo) /\ UNCHANGED << repeat_vars, not_repeat >>
    \/ Prefill(Solo) /\ UNCHANGED << repeat_vars, not_repeat >>
    \/ \E upto \in 0..NumLayers : PrefillErr(Solo, upto) /\ UNCHANGED << repeat_vars, not_repeat >>
    \/ DecodeStep(Solo) /\ UNCHANGED << repeat_vars, not_repeat >>
    \/ \E upto \in 0..NumLayers :
          DecodeStepErr(Solo, upto) /\ UNCHANGED << repeat_vars, not_repeat >>
    \/ StopToken(Solo) /\ UNCHANGED << repeat_vars, not_repeat >>
    \/ StepCap(Solo) /\ UNCHANGED << repeat_vars, not_repeat >>
    \/ Detokenize(Solo) /\ UNCHANGED << repeat_vars, not_repeat >>
    \/ DetokenizeErr(Solo) /\ UNCHANGED << repeat_vars, not_repeat >>
    \/ ReturnNoted(Solo) /\ UNCHANGED not_repeat

SpecRepeat == Init /\ [][NextRepeat]_vars

\* The key store under the admin's add and revoke, restarts and the clock.
NextKeys ==
    \/ \E label \in {"test"}, expires_at \in Expiries :
          Add(label, expires_at) /\ UNCHANGED not_store
    \/ \E label \in {"test"}, expires_at \in Expiries :
          AddSaveErr(label, expires_at) /\ UNCHANGED not_store
    \/ \E key \in KeyStrings : Revoke(key) /\ UNCHANGED not_store
    \/ \E key \in KeyStrings : RevokeSaveErr(key) /\ UNCHANGED not_store
    \/ \E key \in KeyStrings : RevokeUnknown(key) /\ UNCHANGED not_store
    \/ Tick /\ UNCHANGED not_store
    \/ Restart /\ UNCHANGED not_store

SpecKeys == Started /\ [][NextKeys]_vars

\* The login tracker under failed and successful logins and the clock.
NextLogin ==
    \/ \E ip \in Ips : RecordFailure(ip) /\ UNCHANGED not_tracker
    \/ \E ip \in Ips : RecordSuccess(ip) /\ UNCHANGED not_tracker
    \/ \E t \in Instants : Advance(t) /\ UNCHANGED not_tracker

SpecLogin == Started /\ [][NextLogin]_vars

\* Login forms posted concurrently from one address while time passes.
NextSubmit ==
    \/ \E h \in 1..NumSubmitters, f \in LoginForms :
          Submit(h, f) /\ UNCHANGED not_login
    \/ \E h \in 1..NumSubmitters : CheckBlock(h) /\ UNCHANGED not_login
    \/ \E h \in 1..NumSubmitters : Compare(h) /\ UNCHANGED not_login
    \/ \E h \in 1..NumSubmitters : LoginSuccess(h) /\ UNCHANGED not_login
    \/ \E h \in 1..NumSubmitters, tok \in SessionTokens :
          CreateSession(h, tok) /\ UNCHANGED not_login
    \/ \E h \in 1..NumSubmitters : LoginFailure(h) /\ UNCHANGED not_login
    \/ \E t \in Instants :
          Advance(t) /\ UNCHANGED << login_vars, not_login >>

SpecSubmit == Started /\ [][NextSubmit]_vars

\* The server in use: the key store holds keys, nothing else has happened.
Serving ==
    /\ EngineInit
    /\ RepeatInit
    /\ ServingStore
    /\ ApiInit
    /\ TrackerInit
    /\ LoginInit
    /\ FnInit

\* One request after another through translate_get / translate_post.
NextApi ==
    \/ \E r \in ApiRequests :
          Request(r) /\ UNCHANGED << engine_vars, not_api >>
    \/ Extract /\ UNCHANGED << engine_vars, not_api >>
    \/ ValidateKey /\ UNCHANGED << engine_vars, not_api >>
    \/ ParseFrom /\ UNCHANGED << engine_vars, not_api >>
    \/ ParseTo /\ UNCHANGED << engine_vars, not_api >>
    \/ Spawn /\ Call(Solo, Parsed) /\ UNCHANGED not_api
    \/ Spawn /\ CallErr(Solo, Parsed) /\ UNCHANGED not_api
    \/ Awaiting /\ ~poisoned /\ Lock(Solo) /\ UNCHANGED not_api
    \/ Awaiting /\ LockPoisoned(Solo) /\ UNCHANGED not_api
    \/ Awaiting /\ ClearKvCache(Solo) /\ UNCHANGED not_api
    \/ Awaiting /\ Prefill(Solo) /\ UNCHANGED not_api
    \/ \E upto \in 0..NumLayers :
          Awaiting /\ PrefillErr(Solo, upto) /\ UNCHANGED not_api
    \/ Awaiting /\ DecodeStep(Solo) /\ UNCHANGED not_api
    \/ \E upto \in 0..NumLayers :
          Awaiting /\ DecodeStepErr(Solo, upto) /\ UNCHANGED not_api
    \/ Awaiting /\ StopToken(Solo) /\ UNCHANGED not_api
    \/ Awaiting /\ StepCap(Solo) /\ UNCHANGED not_api
    \/ Awaiting /\ Detokenize(Solo) /\ UNCHANGED not_api
    \/ Awaiting /\ DetokenizeErr(Solo) /\ UNCHANGED not_api
    \/ Join(Solo) /\ UNCHANGED not_api
    \/ Panic(Solo) /\ UNCHANGED not_api

SpecApi == Serving /\ [][NextApi]_vars

\* Everything but the function's argument as it is after construction.
Constructed ==
    /\ EngineInit /\ weights = CHOOSE w \in ModelWeights : TRUE
    /\ RepeatInit
    /\ StoreInit
    /\ ApiInit
    /\ TrackerInit
    /\ LoginInit
    /\ returned = NotReturned

\* from_code called with one string.
LanguageInit == Constructed /\ args \in Codes
NextLanguage == FromCode /\ UNCHANGED not_fn
SpecLanguage == LanguageInit /\ [][NextLanguage]_vars

\* build_translation_prompt called with two languages and one text.
PromptInit == Constructed /\ args \in PromptArgs
NextPrompt == BuildTranslationPrompt /\ UNCHANGED not_fn
SpecPrompt == PromptInit /\ [][NextPrompt]_vars

\* sample_token called with the logits of one forward pass.
SampleInit == Constructed /\ args \in LogitTensors
NextSample == SampleToken /\ UNCHANGED not_fn
SpecSample == SampleInit /\ [][NextSample]_vars

\* ================================================================ claims
\* A caller is inside from acquiring the model lock to returning.
Inside(t) == pc[t] \in {"clear", "prefill", "loop", "decode", "ret"}

\* A caller whose call still has model invocations to make or just made one.
Invoking(t) == pc[t] \in {"clear", "prefill", "loop"}

\* C1: at most one caller is between acquiring the model lock and returning
\* from translate, so at most one prefill or decode step is in flight.
C1_OneInFlight == Cardinality({t \in Callers : Inside(t)}) <= 1

C1_Witness ==
    \E t, u \in Callers :
        /\ t # u
        /\ pc[t] = "loop" /\ step[t] >= 1
        /\ pc[u] = "lock"

\* C2: from the acquisition to the last model invocation of a call the lock
\* stays with that call, and every change of the KV cache in between (a
\* clear, a prefill, a decode step) is that call's own.
C2_LockHeldAcrossCall ==
    [][\A t \in Callers :
          Invoking(t) =>
              /\ model_lock = t
              /\ model_lock' = t
              /\ kv_cache' # kv_cache =>
                    \/ pc[t] = "clear" /\ pc'[t] = "prefill"
                    \/ invocations'[t] = invocations[t] + 1]_vars

C2_Witness ==
    \E t, u \in Callers :
        /\ t # u
        /\ pc[t] = "loop" /\ invocations[t] >= 3 /\ model_lock = t
        /\ pc[u] = "lock" /\ req[u] # req[t]

\* C3: the generated tokens never contain an end-of-sequence marker; once
\* one is sampled no further invocation is made and the generated tokens
\* are exactly those sampled before it; the returned text is their decoding.
C3_StopExcluded ==
    \A t \in Callers :
        /\ \A i \in 1..Len(generated_tokens[t]) :
              ~IsStopMarker(generated_tokens[t][i])
        /\ first_stop[t] > 0 =>
              /\ invocations[t] = first_stop[t]
              /\ Len(generated_tokens[t]) = first_stop[t] - 1
        /\ (pc[t] = "ret" /\ result[t].ok) =>
              result[t].text = trim(decode(generated_tokens[t]))

C3_Witness ==
    \E t \in Callers :
        /\ pc[t] = "ret" /\ result[t].ok
        /\ first_stop[t] > 1
        /\ Len(generated_tokens[t]) = first_stop[t] - 1

\* C4: a call never makes more than MAX_NEW_TOKENS decode steps, and a call
\* in which no end-of-sequence marker was sampled and no step failed returns
\* Ok after exactly MAX_NEW_TOKENS decode steps with exactly that many
\* generated tokens.
C4_StepCap ==
    \A t \in Callers :
        /\ step[t] <= MAX_NEW_TOKENS
        /\ Len(generated_tokens[t]) <= MAX_NEW_TOKENS
        /\ (pc[t] = "ret" /\ ~failed[t] /\ first_stop[t] = 0) =>
              /\ result[t].ok
              /\ step[t] = MAX_NEW_TOKENS
              /\ invocations[t] = MAX_NEW_TOKENS + 1
              /\ Len(generated_tokens[t]) = MAX_NEW_TOKENS
              /\ generated_tokens[t] # << >>

C4_Witness ==
    \E t \in Callers :
        /\ pc[t] = "ret" /\ result[t].ok /\ first_stop[t] = 0
        /\ Len(generated_tokens[t]) = MAX_NEW_TOKENS
        /\ result[t].text # << >>

\* C5: the counter is the prompt length after the prefill and one more after
\* each decode step, and the k-th decode step of a call is given the position
\* promptLength + k - 1.
C5_Positions ==
    \A t \in Callers :
        /\ pc[t] \in {"loop", "decode"} =>
              pos[t] = Len(input_ids[t]) + step[t]
        /\ invocations[t] >= 2 =>
              last_position[t] = Len(input_ids[t]) + (invocations[t] - 1) - 1
        /\ invocations[t] <= 1 => last_position[t] = NoToken
        /\ pc[t] \in {"loop", "decode"} =>
              /\ invocations[t] = step[t] + 1
              /\ Len(generated_tokens[t]) = step[t]

C5_Witness ==
    \E t \in Callers :
        /\ pc[t] = "ret" /\ result[t].ok
        /\ Len(generated_tokens[t]) >= 3
        /\ last_position[t] = Len(input_ids[t]) + Len(generated_tokens[t]) - 1

\* C6: after the prefill and after every decode step that succeeded, all
\* layers hold the same number of positions, and that number is pos.
C6_CacheMatchesPosition ==
    \A t \in Callers :
        pc[t] \in {"loop", "decode"} =>
            \A l \in Layers : Len(kv_cache[l]) = pos[t]

C6_Witness ==
    \E t \in Callers :
        /\ pc[t] = "loop" /\ step[t] = 2
        /\ \A l \in Layers : Len(kv_cache[l]) = Len(input_ids[t]) + 2

\* What translate returns when it runs alone on a freshly loaded model: the
\* decode loop as k steps from the state after the prefill.
SerialStep(w, st) ==
    IF IsStopMarker(st.tok) THEN st
    ELSE LET seen == Append(st.ctx, st.tok)
         IN  [ctx |-> seen,
              tok |-> argmax(Logits(w, seen, Len(seen))),
              gen |-> Append(st.gen, st.tok)]

RECURSIVE SerialSteps(_, _, _)
SerialSteps(w, st, k) ==
    IF k = 0 \/ IsStopMarker(st.tok) THEN st
    ELSE IF k = 1 THEN SerialStep(w, st)
    ELSE LET half == SerialSteps(w, st, k \div 2)
         IN  IF IsStopMarker(half.tok) THEN half
             ELSE SerialSteps(w, half, k - (k \div 2))

SerialOutput ==
    [w \in ModelWeights, r \in Requests |->
        LET ids == encode(build_translation_prompt(r.from, r.to, r.text))
            st0 == [ctx |-> ids,
                    tok |-> argmax(Logits(w, ids, Len(ids))),
                    gen |-> << >>]
        IN  trim(decode(SerialSteps(w, st0, MAX_NEW_TOKENS).gen))]

\* C7: the cache an invocation of a call works on holds that call's prompt
\* and generated tokens and nothing else, and whatever the interleaving a
\* call that returns Ok returns what it returns when run alone.
C7_NoLeakage ==
    \A t \in Callers :
        /\ pc[t] = "prefill" => \A l \in Layers : kv_cache[l] = << >>
        /\ pc[t] \in {"loop", "decode"} =>
              \A l \in Layers :
                  kv_cache[l] = input_ids[t] \o generated_tokens[t]
        /\ (pc[t] = "ret" /\ result[t].ok) =>
              result[t].text = SerialOutput[weights, req[t]]

C7_Witness ==
    \E t, u \in Callers :
        /\ t # u
        /\ pc[t] = "ret" /\ result[t].ok /\ result[t].text # << >>
        /\ pc[u] = "lock" /\ req[u].text # req[t].text

\* C8 as stated: whenever no translate call is in progress the model holds
\* no KV-cache contents.
C8_CacheDestroyedAtReturn ==
    (\A t \in Callers : pc[t] = "idle") => kv_cache = EmptyCache

\* C8 amended: the prompt tokens, generated tokens and counter are gone
\* when the call has returned; the KV cache stays in the model, is emptied
\* by nothing but the clear of a call that holds the lock, and is empty when
\* that call makes its first invocation.
C8_CacheClearedBeforeUse ==
    /\ [](\A t \in Callers :
            /\ pc[t] = "idle" =>
                  /\ input_ids[t] = << >>
                  /\ generated_tokens[t] = << >>
                  /\ pos[t] = 0
            /\ pc[t] = "prefill" => kv_cache = EmptyCache)
    /\ [][(kv_cache # EmptyCache /\ kv_cache' = EmptyCache) =>
            \E t \in Callers :
                /\ model_lock = t
                /\ pc[t] = "clear" /\ pc'[t] = "prefill"]_vars

C8_Witness ==
    \E t \in Callers :
        /\ pc[t] = "clear" /\ model_lock = t
        /\ kv_cache # EmptyCache
        /\ \A u \in Callers : u # t => pc[u] = "idle"

\* C9: a call in which a step failed does nothing more than return, and it
\* returns an error carrying no text; a call returns Ok only when no step
\* of it failed.
C9_FailStop ==
    \A t \in Callers :
        /\ failed[t] =>
              /\ pc[t] \in {"ret", "early"}
              /\ ~result[t].ok
              /\ DOMAIN result[t] = {"ok", "error"}
        /\ (pc[t] \in {"ret", "early"} /\ result[t].ok) => ~failed[t]
        /\ pc[t] \in {"ret", "early"} => result[t] # NoResult

C9_Witness ==
    \E t \in Callers :
        /\ pc[t] = "ret" /\ failed[t] /\ ~result[t].ok
        /\ Len(generated_tokens[t]) >= 2
        /\ invocations[t] = Len(generated_tokens[t]) + 1

\* C10: a caller that is not inside translate's locked part does not hold
\* the lock, whichever way its last call ended, so a waiting caller can
\* take the lock as soon as nobody is inside.
C10_ReleasedOnEveryExit ==
    \A t \in Callers :
        /\ ~Inside(t) => model_lock # t
        /\ (pc[t] = "lock" /\ \A u \in Callers : ~Inside(u)) =>
              ENABLED Lock(t)

C10_Witness ==
    \E t \in Callers :
        /\ pc[t] = "clear" /\ model_lock = t
        /\ \E l \in Layers : Len(kv_cache[l]) # Len(kv_cache[1])

\* C11: a call that returns Ok returns the text that an earlier call with
\* the same (from, to, text) returned, whatever calls (stopped, truncated,
\* failed) returned in between.
C11_Determinism ==
    \A t \in Callers :
        (/\ pc[t] = "ret" /\ result[t].ok
         /\ baseline.set
         /\ req[t] = baseline.req) =>
            result[t].text = baseline.text

C11_Witness ==
    /\ pc[Solo] = "ret" /\ result[Solo].ok
    /\ baseline.set /\ req[Solo] = baseline.req
    /\ result[Solo].text # << >>
    /\ since = {"failed", "truncated", "stopped"}

\* The request in hand carries a Bearer token that the store validates.
Authorized ==
    /\ http_req.header.present
    /\ http_req.header.text
    /\ http_req.header.value[1] = "Bearer "
    /\ validate(http_req.header.value[2])

\* Both codes of the request in hand parse to a Language.
CodesParse == from_code(http_req.from).ok /\ from_code(http_req.to).ok

\* C12: translate is running only for a request whose key validated and
\* whose two codes parsed, and on the Languages they parsed to; a request
\* with an invalid key or an unsupported code is answered 401 or 400 without
\* a blocking task, and no step of the handler outside the task changes the
\* model's lock, cache or weights.
C12_ValidatedBeforeEngine ==
    /\ [](/\ pc[Solo] # "idle" =>
                /\ hpc = "await"
                /\ Authorized
                /\ CodesParse
                /\ req[Solo] = [from |-> from_code(http_req.from).lang,
                                to |-> from_code(http_req.to).lang,
                                text |-> http_req.text]
          /\ hpc \in {"extract", "validate", "from", "to", "spawn"} =>
                /\ pc[Solo] = "idle"
                /\ ~task.done
          /\ (hpc \in {"spawn", "await"}) => (Authorized /\ CodesParse)
          /\ (hpc = "done" /\ ~(Authorized /\ CodesParse)) =>
                /\ ~task.done
                /\ response.status \in {400, 401})
    /\ [][hpc \notin {"spawn", "await"} =>
             UNCHANGED << weights, model_lock, kv_cache, poisoned, pc,
                          invocations >>]_vars

C12_Witness ==
    /\ hpc = "done"
    /\ Authorized /\ ~CodesParse
    /\ response.status = 400
    /\ ~task.done
    /\ kv_cache # EmptyCache

\* Every failure recorded for the IP since its latest success lies within
\* the block duration.
FailuresRecent(ip) ==
    oldest_failure[ip].some =>
        elapsed(oldest_failure[ip].value) < BLOCK_DURATION

\* C13: while the failures recorded for an IP since its latest success all
\* lie within the block duration, the IP is blocked exactly when there are
\* at least MAX_FAILED_ATTEMPTS (5) of them.
C13_BlockedFromFive ==
    \A ip \in Ips :
        FailuresRecent(ip) =>
            (is_blocked(ip) <=> failures_since[ip] >= MAX_FAILED_ATTEMPTS)

C13_Witness ==
    \E ip, other \in Ips :
        /\ now > 0
        /\ FailuresRecent(ip) /\ FailuresRecent(other)
        /\ failures_since[ip] = MAX_FAILED_ATTEMPTS /\ is_blocked(ip)
        /\ failures_since[other] = MAX_FAILED_ATTEMPTS - 1
        /\ ~is_blocked(other)

\* C14: right after record_success the IP has no failure history and is not
\* blocked, whatever it was before, and an IP is never blocked with fewer
\* than five failures recorded since its latest success.
C14_ResetOnSuccess ==
    /\ tracker_op.op = "record_success" =>
          /\ attempts[tracker_op.ip] = Absent
          /\ ~is_blocked(tracker_op.ip)
    /\ \A ip \in Ips :
          is_blocked(ip) => failures_since[ip] >= MAX_FAILED_ATTEMPTS

C14_Witness ==
    /\ tracker_op.op = "record_success"
    /\ tracker_op.blocked_before
    /\ now > 0

\* The key strings that add has handed out so far.
Issued == {Uuid(n) : n \in 1..issued}

\* C15: validate(k) is true exactly when the store holds an entry with key
\* k that is not revoked and whose expiry, if set, has not passed; a key
\* just added with no expiry is valid; a key added with a past expiry, a
\* string that add never handed out and a key whose revoke returned
\* Ok(true) are not valid, whatever happened since.
C15_KeyValidity ==
    \A k \in KeyStrings :
        /\ validate(k) <=>
              \E i \in 1..Len(keys) :
                  /\ keys[i].key = k
                  /\ ~keys[i].revoked
                  /\ keys[i].expires_at.some =>
                        utc_now <= keys[i].expires_at.value
        /\ (/\ store_op.op = "add" /\ store_op.ok
            /\ store_op.key = k
            /\ ~store_op.expires_at.some) => validate(k)
        /\ k \in born_expired => ~validate(k)
        /\ k \notin Issued => ~validate(k)
        /\ k \in revoked_ok => ~validate(k)

C15_Witness ==
    \E k, other \in Issued :
        /\ k \in revoked_ok /\ ~validate(k)
        /\ validate(other)
        /\ \E i \in 1..Len(keys) :
              keys[i].key = other /\ keys[i].expires_at = Some(utc_now)
        /\ store_op.op = "load"

\* C16: as long as every add and revoke since the store was loaded has
\* returned Ok, loading the file again gives the key list the store holds
\* (keys, labels, times, expiries and revoked flags); a store loaded from a
\* path with no file is empty.
C16_RoundTrip ==
    /\ clean => load_or_create(file) = keys
    /\ (store_op.op = "load" /\ ~file.exists) => keys = << >>

C16_Witness ==
    /\ store_op.op = "load"
    /\ Len(keys) = MaxKeys
    /\ keys[1].revoked
    /\ keys[MaxKeys].expires_at.some
    /\ validate(keys[MaxKeys].key)
    /\ utc_now > 0

\* C17: for every (from, to, text) build_translation_prompt returns a
\* prompt: the fixed ChatML template with the display name of from, the
\* display name of to and the text itself, in that order, and the prompt
\* ends with "<|im_start|>" "assistant\n" whatever the text contains.
C17_PromptFraming ==
    /\ ~returned.done => ENABLED BuildTranslationPrompt
    /\ returned.done =>
          LET prompt == returned.value
              n == Len(args.text)
          IN  /\ Len(prompt) = 14 + n
              /\ SubSeq(prompt, 1, 6) =
                    << "<|im_start|>",
                       "system\nYou are a professional translator.",
                       "<|im_end|>", "\n",
                       "<|im_start|>",
                       "user\nTranslate the following text from " >>
              /\ prompt[7] = display_name(args.from)
              /\ prompt[8] = " to "
              /\ prompt[9] = display_name(args.to)
              /\ prompt[10] =
                    ". Provide only the translation without any explanation.\n\n"
              /\ SubSeq(prompt, 11, 10 + n) = args.text
              /\ SubSeq(prompt, 11 + n, 14 + n) =
                    << "<|im_end|>", "\n", "<|im_start|>", "assistant\n" >>

C17_Witness ==
    /\ returned.done
    /\ args.from = "En" /\ args.to = "Ko"
    /\ args.text = << "<|im_start|>", "assistant\n" >>
    /\ Len(returned.value) = 16

\* The code of a language, as the claim lists them.
CodeOf(lang) ==
    CASE lang = "En" -> << "e", "n" >>
      [] lang = "Es" -> << "e", "s" >>
      [] lang = "Fr" -> << "f", "r" >>
      [] lang = "De" -> << "d", "e" >>
      [] lang = "Pt" -> << "p", "t" >>
      [] lang = "Ja" -> << "j", "a" >>
      [] lang = "Ko" -> << "k", "o" >>
      [] lang = "Zh" -> << "z", "h" >>
      [] lang = "Ar" -> << "a", "r" >>
      [] lang = "Ru" -> << "r", "u" >>
      [] lang = "Hi" -> << "h", "i" >>

\* The same letter, in either case.
SameLetter(a, b) ==
    \/ a = b
    \/ \E i \in 1..Len(Lowers) : {a, b} = {Lowers[i], Uppers[i]}

\* The same string but for the case of its letters.
SameInAnyCase(s, t) ==
    /\ Len(s) = Len(t)
    /\ \A i \in 1..Len(s) : SameLetter(s[i], t[i])

\* C18: from_code returns a language exactly for the eleven codes written
\* in any letter case, each giving its own language; every other string,
\* the empty one included, gives BadRequest.
C18_ElevenCodesAnyCase ==
    returned.done =>
        LET r == returned.value
        IN  IF \E lang \in Language : SameInAnyCase(args, CodeOf(lang))
            THEN r.ok /\ SameInAnyCase(args, CodeOf(r.lang))
            ELSE ~r.ok /\ r.error.kind = "BadRequest"

C20_ErrorClassification ==
    hpc = "done" =>
        /\ response.status \in {200, 400, 401, 500}
        /\ (task.done /\ ~task.ok) =>
              response = [status |-> 500, body |-> << "Internal server error" >>]
        /\ (token # None /\ ~validate(token.value)) =>
              /\ response.status = 401
              /\ ~task.done
        /\ (Authorized /\ ~CodesParse) =>
              /\ response.status = 400
              /\ ~task.done
        /\ response.status = 200 <=> (task.done /\ task.ok)
        /\ response.status = 200 => response.body = task.text
        /\ response.status = 500 => (task.done /\ ~task.ok)

C20_Witness ==
    /\ hpc = "done"
    /\ poisoned
    /\ task = [done |-> TRUE, ok |-> FALSE,
               error |-> << "Model lock poisoned" >>]
    /\ response = [status |-> 500, body |-> << "Internal server error" >>]

\* The states of the generation engine a caller's translate is in:
\* Prefilling from the call to the end of the prefill pass, Decoding in the
\* loop, Done from the end of the loop, or from a failing step, to return.
Phase(at, has_failed) ==
    IF at = "idle" THEN "Idle"
    ELSE IF has_failed \/ at \in {"decode", "ret", "early"} THEN "Done"
    ELSE IF at = "loop" THEN "Decoding"
    ELSE "Prefilling"

\* One step of caller t is in the order of the engine's states.
InOrder(t) ==
    LET before == Phase(pc[t], failed[t])
        after == Phase(pc'[t], failed'[t])
    IN  \/ after = before
        \/ before = "Idle" /\ after = "Prefilling"
        \/ before = "Prefilling" /\ after = "Decoding"
        \/ before = "Decoding" /\ after = "Done"
        \/ before = "Done" /\ after = "Idle"
        \/ failed'[t] /\ after = "Done"

\* A step of caller t that invokes the model is the prefill, given the whole
\* prompt on an empty cache, or a decode step, given the one token that it
\* has just appended to the generated tokens.
InvocationGiven(t) ==
    invocations'[t] > invocations[t] =>
        IF invocations[t] = 0
        THEN /\ pc[t] = "prefill"
             /\ invocations'[t] = 1
             /\ kv_cache = EmptyCache
             /\ generated_tokens[t] = << >>
             /\ \A l \in Layers : kv_cache'[l] \in {<< >>, input_ids[t]}
             /\ ~failed'[t] =>
                   /\ \A l \in Layers : kv_cache'[l] = input_ids[t]
                   /\ pos'[t] = Len(input_ids[t])
        ELSE /\ pc[t] = "loop"
             /\ invocations'[t] = invocations[t] + 1
             /\ generated_tokens'[t] =
                   Append(generated_tokens[t], next_token[t])
             /\ \A l \in Layers :
                   kv_cache'[l] \in
                       {kv_cache[l],
                        Append(kv_cache[l],
                               generated_tokens'[t][Len(generated_tokens'[t])])}
             /\ ~failed'[t] =>
                   \A l \in Layers : Len(kv_cache'[l]) = Len(kv_cache[l]) + 1

C22_WaiterAcquires ==
    (\A u \in Callers : []<>(model_lock # u)) =>
        (\A t \in Callers : (pc[t] = "lock") ~> (model_lock = t))

\* The IP's count has reached MAX_FAILED_ATTEMPTS and BLOCK_DURATION has
\* passed since its last recorded failure.
BlockExpired(ip) ==
    /\ attempts[ip].known
    /\ attempts[ip].failed_count >= MAX_FAILED_ATTEMPTS
    /\ elapsed(attempts[ip].last_failed_at) >= BLOCK_DURATION

\* C23: an IP whose count has reached 5 is blocked exactly until 30 minutes
\* have passed since its last recorded failure, and the passing of time
\* alone never blocks it again; the first record_failure after the expiry
\* leaves the count at 1 and the IP not blocked, every other record_failure
\* adds one to the count, and a blocked IP has a count of at least 5.
C23_BlockExpiry ==
    /\ [](\A ip \in Ips :
            /\ (attempts[ip].known
                /\ attempts[ip].failed_count >= MAX_FAILED_ATTEMPTS) =>
                  (is_blocked(ip) <=>
                      now < attempts[ip].last_failed_at + BLOCK_DURATION)
            /\ is_blocked(ip) =>
                  attempts[ip].failed_count >= MAX_FAILED_ATTEMPTS
            /\ BlockExpired(ip) => ~is_blocked(ip))
    /\ [][\A ip \in Ips :
            /\ (tracker_op'.op = "wait" /\ ~is_blocked(ip)) => ~is_blocked(ip)'
            /\ (tracker_op'.op = "record_failure" /\ tracker_op'.ip = ip) =>
                  /\ attempts'[ip].last_failed_at = now
                  /\ attempts'[ip].failed_count =
                        IF ~attempts[ip].known \/ BlockExpired(ip) THEN 1
                        ELSE attempts[ip].failed_count + 1
                  /\ BlockExpired(ip) => ~is_blocked(ip)']_vars

C23_Witness ==
    \E ip \in Ips :
        /\ failures_since[ip] = 2 * MAX_FAILED_ATTEMPTS
        /\ ~FailuresRecent(ip)
        /\ attempts[ip].failed_count = MAX_FAILED_ATTEMPTS
        /\ is_blocked(ip)
        /\ tracker_op.op = "record_failure" /\ ~tracker_op.blocked_before

\* C24: under concurrent submissions from one address the failure count of
\* the address never exceeds MAX_FAILED_ATTEMPTS (5), and no submission has
\* its credentials compared while the address is blocked.
C24_NoCheckWhileBlocked ==
    /\ [](attempts[ClientIp].known =>
             attempts[ClientIp].failed_count <= MAX_FAILED_ATTEMPTS)
    /\ [][\A h \in 1..NumSubmitters :
             (lpc[h] = "compare" /\ lpc'[h] # "compare") =>
                 ~is_blocked(ClientIp)]_vars

\* C25: a submission whose block check finds the address blocked is answered
\* 403 at once, whatever its credentials: it creates no session and leaves
\* the tracker as it was, so the address is still blocked, with the same
\* count and the same last failure.
C25_BlockedRejected ==
    /\ [](\A h \in 1..NumSubmitters :
             login_response[h].status = 403 =>
                 lpc[h] = "idle" /\ DOMAIN login_response[h] = {"status"})
    /\ [][\A h \in 1..NumSubmitters :
             (lpc[h] = "check" /\ lpc'[h] # "check"
              /\ is_blocked(ClientIp)) =>
                 /\ login_response'[h] = [status |-> 403]
                 /\ lpc'[h] = "idle"
                 /\ attempts' = attempts
                 /\ now' = now
                 /\ sessions' = sessions]_vars

C25_Witness ==
    \E h \in 1..NumSubmitters :
        /\ lpc[h] = "idle"
        /\ login_response[h].status = 403
        /\ form[h] = AdminConfig
        /\ is_blocked(ClientIp)
        /\ attempts[ClientIp].failed_count = MAX_FAILED_ATTEMPTS
        /\ \A tok \in SessionTokens : sessions[tok] = None

\* C26: an add or revoke that returns Err leaves the key list as it was
\* before the call, so the key of a failed add is not valid and the key of
\* a failed revoke is not revoked by it; and the key list always equals
\* what the file, as last written, decodes to.
C26_UnchangedOnError ==
    /\ [](/\ load_or_create(file) = keys
          /\ (store_op.op = "add" /\ ~store_op.ok) =>
                ~validate(store_op.key))
    /\ [][(store_op'.op \in {"add", "revoke"} /\ ~store_op'.ok
           /\ store_op' # store_op) => keys' = keys]_vars

====
